---- MODULE Spec2Model ----
(***************************************************************************)
(* Privilege compilation (privilegesFactory(...).get) and UI capability    *)
(* merging (uiCapabilitiesForFeatures) of the Kibana security / features   *)
(* plugins.                                                                *)
(*                                                                         *)
(* Encoding.  A JavaScript string[] is a sequence of strings.  A plain     *)
(* object used as a map (Record<string, T>) is a function whose DOMAIN is  *)
(* its set of keys.  feature.privileges is an insertion-ordered object: it *)
(* is the sequence of its [privilegeId, privilege] entries.  An optional   *)
(* field is a sequence of length 0 (undefined) or 1 (the value).           *)
(***************************************************************************)
EXTENDS Integers, Sequences, FiniteSets, TLC

VARIABLES features, compiled, capabilities

vars == <<features, compiled, capabilities>>

(***************************************************************************)
(* Bounds of the model.                                                    *)
(***************************************************************************)
\* Largest number of registered features.
MaxFeatures == 2
\* Largest number of privileges (top-level, sub-feature and reserved ones)
\* declared by all the registered features together.
MaxPrivileges == 3

(***************************************************************************)
(* Sequence and object helpers.                                            *)
(***************************************************************************)
Range(s) == {s[i] : i \in 1..Len(s)}

NoDuplicates(s) == \A i, j \in 1..Len(s) : s[i] = s[j] => i = j

\* _.flatten of a list of lists.
RECURSIVE Flatten(_)
Flatten(ss) ==
  IF Len(ss) = 0 THEN <<>> ELSE Head(ss) \o Flatten(Tail(ss))

\* lodash uniq: the first occurrence of every element, in order.
RECURSIVE uniq(_)
uniq(s) ==
  IF Len(s) = 0 THEN <<>>
  ELSE LET init == uniq(SubSeq(s, 1, Len(s) - 1))
           last == s[Len(s)]
       IN  IF last \in Range(init) THEN init ELSE Append(init, last)

\* {} : the object with no key.
EmptyObject == <<>>

\* obj[key] = value on a plain object.
Assign(obj, key, value) ==
  [k \in DOMAIN obj \cup {key} |-> IF k = key THEN value ELSE obj[k]]

\* The assignments obj[e.key] = e.value for the entries e, in order.
RECURSIVE AssignAll(_, _)
AssignAll(obj, entries) ==
  IF Len(entries) = 0 THEN obj
  ELSE AssignAll(Assign(obj, Head(entries).key, Head(entries).value),
                 Tail(entries))

\* Optional values: undefined, or a value.
Undefined == <<>>

Some(v) == <<v>>

(***************************************************************************)
(* The Actions namespace: well-known action constants and the namespaced   *)
(* constructors.                                                           *)
(***************************************************************************)
login == "login:"

version == "version:"

allHack == "allHack:"

spaceManage == "space:manage"

apiGet(operation) == "api:" \o operation

appGet(appId) == "app:" \o appId

uiGet(featureId, capability) == "ui:" \o featureId \o "/" \o capability

uiGetNested(featureId, group, capability) ==
  "ui:" \o featureId \o "/" \o group \o "/" \o capability

savedObjectGet(type, operation) == "saved_object:" \o type \o "/" \o operation

ReadOperations == <<"get">>

AllOperations == ReadOperations \o <<"create">>

(***************************************************************************)
(* featurePrivilegeBuilder.getActions(privilege, feature): the actions of  *)
(* the capabilities a privilege declares.                                  *)
(***************************************************************************)
savedObjectActions(types, operations) ==
  Flatten([i \in 1..Len(types) |->
             [j \in 1..Len(operations) |->
                savedObjectGet(types[i], operations[j])]])

getActions(privilege, feature) ==
  Flatten(<<
    [i \in 1..Len(privilege.app) |-> appGet(privilege.app[i])],
    uniq(savedObjectActions(privilege.savedObject.all, AllOperations)
         \o savedObjectActions(privilege.savedObject.read, ReadOperations)),
    [i \in 1..Len(privilege.ui) |-> uiGet(feature.id, privilege.ui[i])]
  >>)

(***************************************************************************)
(* feature_privilege_iterator                                              *)
(***************************************************************************)
\* subFeaturePrivilegeIterator(feature): the flat walk over every privilege
\* of every group of every sub-feature.
subFeaturePrivilegeIterator(feature) ==
  LET ofSubFeature(sf) ==
        Flatten([g \in 1..Len(sf.privilegeGroups) |->
                   sf.privilegeGroups[g].privileges])
  IN  Flatten([s \in 1..Len(feature.subFeatures) |->
                 ofSubFeature(feature.subFeatures[s])])

\* Is a sub-feature privilege folded into the top-level privilege privilegeId?
\* Into all: the sub-feature privileges with includeIn = "all".  Into read:
\* those with includeIn = "read" or "all".  Into a privilege with another id,
\* and for includeIn = "none": none.
foldedInto(privilegeId, subFeaturePrivilege) ==
  \/ privilegeId = "all" /\ subFeaturePrivilege.includeIn = "all"
  \/ privilegeId = "read" /\ subFeaturePrivilege.includeIn \in {"read", "all"}

\* The synthesized privilege: own capabilities first, then those of the
\* folded sub-feature privileges in declaration order, deduplicated.
mergeWithSubFeatures(privilegeId, privilege, feature) ==
  LET folded == SelectSeq(subFeaturePrivilegeIterator(feature),
                          LAMBDA sp : foldedInto(privilegeId, sp))
      n == Len(folded)
  IN  [privilege EXCEPT
         !.savedObject =
            [all  |-> uniq(privilege.savedObject.all \o
                       Flatten([i \in 1..n |-> folded[i].savedObject.all])),
             read |-> uniq(privilege.savedObject.read \o
                       Flatten([i \in 1..n |-> folded[i].savedObject.read]))],
         !.app = uniq(privilege.app \o Flatten([i \in 1..n |-> folded[i].app])),
         !.ui = uniq(privilege.ui \o Flatten([i \in 1..n |-> folded[i].ui]))]

\* A feature entry whose privileges field is missing is malformed: iterating
\* it is a configuration error.
malformed(feature) == feature.privileges = Undefined

\* featurePrivilegeIterator(feature, options) of a well-formed feature: the
\* sequence of the {privilegeId, privilege} it yields.  options.predicate is
\* undefined or a predicate, given as the set of the entries it accepts.
featurePrivilegeIterator(feature, options) ==
  LET accepted(e) == \/ options.predicate = Undefined
                     \/ e \in options.predicate[1]
      entries == SelectSeq(feature.privileges[1], accepted)
  IN  [i \in 1..Len(entries) |->
         IF options.augmentWithSubFeaturePrivileges
         THEN [privilegeId |-> entries[i].privilegeId,
               privilege |-> mergeWithSubFeatures(entries[i].privilegeId,
                                                  entries[i].privilege, feature)]
         ELSE entries[i]]

(***************************************************************************)
(* privilegesFactory(actions, featuresService).get()                       *)
(***************************************************************************)
\* Faulty variant: the features are not filtered.
basePrivilegeFeatures_notFiltered(fs) == fs

basePrivilegeFeatures(fs) ==
  SelectSeq(fs, LAMBDA feature : ~feature.excludeFromBasePrivileges)

\* The predicate of the base privilege walk: the entries it accepts.
basePrivilegePredicate(feature) ==
  {e \in Range(feature.privileges[1]) : ~e.privilege.excludeFromBasePrivileges}

\* The {privilegeId, privilegeActions} of the base privilege walk, in order.
basePrivilegeActions(fs) ==
  LET base == basePrivilegeFeatures(fs)
      ofFeature(feature) ==
        LET yielded == featurePrivilegeIterator(feature,
                         [augmentWithSubFeaturePrivileges |-> TRUE,
                          predicate |-> Some(basePrivilegePredicate(feature))])
        IN  [i \in 1..Len(yielded) |->
               [privilegeId |-> yielded[i].privilegeId,
                privilegeActions |-> getActions(yielded[i].privilege, feature)]]
  IN  Flatten([f \in 1..Len(base) |-> ofFeature(base[f])])

\* Faulty variant: the accumulated actions are not deduplicated.
allActions_notDeduplicated(fs) ==
  LET walk == basePrivilegeActions(fs)
  IN  Flatten([i \in 1..Len(walk) |-> walk[i].privilegeActions])

allActions(fs) ==
  LET walk == basePrivilegeActions(fs)
  IN  uniq(Flatten([i \in 1..Len(walk) |-> walk[i].privilegeActions]))

\* Faulty variant: readActions = privilegeActions, dropping what was accumulated.
readActions_overwritten(fs) ==
  LET walk == SelectSeq(basePrivilegeActions(fs),
                        LAMBDA w : w.privilegeId = "read")
  IN  IF Len(walk) = 0 THEN <<>> ELSE uniq(walk[Len(walk)].privilegeActions)

readActions(fs) ==
  LET walk == SelectSeq(basePrivilegeActions(fs),
                        LAMBDA w : w.privilegeId = "read")
  IN  uniq(Flatten([i \in 1..Len(walk) |-> walk[i].privilegeActions]))

\* The action list of a top-level privilege of the feature table.
featurePrivilegeActions(featurePrivilege, feature) ==
  <<login, version>>
    \o getActions(featurePrivilege.privilege, feature)
    \o (IF featurePrivilege.privilegeId = "all" THEN <<allHack>> ELSE <<>>)

\* Faulty variant: the privileges are iterated without their sub-feature privileges.
augmentedEntries_notAugmented(feature) ==
  LET yielded == featurePrivilegeIterator(feature,
                   [augmentWithSubFeaturePrivileges |-> FALSE,
                    predicate |-> Undefined])
  IN  [i \in 1..Len(yielded) |->
         [key |-> yielded[i].privilegeId,
          value |-> featurePrivilegeActions(yielded[i], feature)]]

\* The assignments featurePrivileges[feature.id][privilegeId] = [...] of the
\* augmented walk.
augmentedEntries(feature) ==
  LET yielded == featurePrivilegeIterator(feature,
                   [augmentWithSubFeaturePrivileges |-> TRUE,
                    predicate |-> Undefined])
  IN  [i \in 1..Len(yielded) |->
         [key |-> yielded[i].privilegeId,
          value |-> featurePrivilegeActions(yielded[i], feature)]]

\* Faulty variant: the minimal_ entries are written whether or not the feature has
\* sub-features.
minimalEntries_always(feature) ==
  LET yielded == featurePrivilegeIterator(feature,
                   [augmentWithSubFeaturePrivileges |-> FALSE,
                    predicate |-> Undefined])
  IN  [i \in 1..Len(yielded) |->
         [key |-> "minimal_" \o yielded[i].privilegeId,
          value |-> featurePrivilegeActions(yielded[i], feature)]]

\* The assignments featurePrivileges[feature.id][`minimal_${privilegeId}`] =
\* [...] of a feature with sub-features.
minimalEntries(feature) ==
  IF Len(feature.subFeatures) > 0
  THEN LET yielded == featurePrivilegeIterator(feature,
                        [augmentWithSubFeaturePrivileges |-> FALSE,
                         predicate |-> Undefined])
       IN  [i \in 1..Len(yielded) |->
              [key |-> "minimal_" \o yielded[i].privilegeId,
               value |-> featurePrivilegeActions(yielded[i], feature)]]
  ELSE <<>>

\* Faulty variant: the sub-feature privilege entries end with the all-hack, as the
\* entries of the all privilege do.
subFeatureEntries_withAllHack(feature) ==
  LET sub == subFeaturePrivilegeIterator(feature)
  IN  [i \in 1..Len(sub) |->
         [key |-> sub[i].id,
          value |-> <<login, version>> \o getActions(sub[i], feature)
                      \o <<allHack>>]]

\* The assignments featurePrivileges[feature.id][subFeaturePrivilege.id] = [...].
subFeatureEntries(feature) ==
  LET sub == subFeaturePrivilegeIterator(feature)
  IN  [i \in 1..Len(sub) |->
         [key |-> sub[i].id,
          value |-> <<login, version>> \o getActions(sub[i], feature)]]

\* featurePrivileges[feature.id] before the check for an empty table.
featureTable(feature) ==
  AssignAll(EmptyObject,
            augmentedEntries(feature) \o minimalEntries(feature)
              \o subFeatureEntries(feature))

\* The features table: one entry per feature, deleted when it is empty.
RECURSIVE featurePrivileges(_)
featurePrivileges(fs) ==
  IF Len(fs) = 0 THEN EmptyObject
  ELSE LET acc == featurePrivileges(SubSeq(fs, 1, Len(fs) - 1))
           feature == fs[Len(fs)]
           table == featureTable(feature)
       IN  IF DOMAIN table = {}
           THEN [k \in DOMAIN acc \ {feature.id} |-> acc[k]]
           ELSE Assign(acc, feature.id, table)

globalPrivileges(fs) ==
  [all  |-> <<login, version, apiGet("features"), spaceManage,
              uiGet("spaces", "manage"),
              uiGetNested("management", "kibana", "spaces")>>
            \o allActions(fs) \o <<allHack>>,
   read |-> <<login, version>> \o readActions(fs)]

\* Faulty variant: the space scope has the shape of the global scope.
spacePrivileges_asGlobal(fs) == globalPrivileges(fs)

spacePrivileges(fs) ==
  [all  |-> <<login, version>> \o allActions(fs) \o <<allHack>>,
   read |-> <<login, version>> \o readActions(fs)]

RECURSIVE reservedPrivileges(_)
reservedPrivileges(fs) ==
  IF Len(fs) = 0 THEN EmptyObject
  ELSE LET acc == reservedPrivileges(SubSeq(fs, 1, Len(fs) - 1))
           feature == fs[Len(fs)]
       IN  IF feature.reserved # Undefined
           THEN Assign(acc, feature.id,
                  <<version>> \o getActions(feature.reserved[1].privilege, feature))
           ELSE acc

\* Faulty variant: a malformed feature is skipped and the others are compiled.
get_skippingMalformed(fs) ==
  LET wellFormed == SelectSeq(fs, LAMBDA feature : ~malformed(feature))
  IN  [status |-> "returned",
       value |-> [features |-> featurePrivileges(wellFormed),
                  global |-> globalPrivileges(wellFormed),
                  space |-> spacePrivileges(wellFormed),
                  reserved |-> reservedPrivileges(wellFormed)]]

\* The outcome of get() on the feature list fs: the RawKibanaPrivileges it
\* returns, or the error an iterator threw, which get() does not catch.
get(fs) ==
  IF \E i \in 1..Len(fs) : malformed(fs[i])
  THEN [status |-> "threw", value |-> EmptyObject]
  ELSE [status |-> "returned",
        value |-> [features |-> featurePrivileges(fs),
                   global |-> globalPrivileges(fs),
                   space |-> spacePrivileges(fs),
                   reserved |-> reservedPrivileges(fs)]]

(***************************************************************************)
(* uiCapabilitiesForFeatures(features)                                     *)
(***************************************************************************)
\* { [key]: true } for every key of a list.
allTrue(keys) == [k \in Range(keys) |-> TRUE]

\* The capabilities one feature declares: its catalogue entries, and under
\* its id the ui capabilities of its top-level privileges and of every
\* privilege of every group of its sub-features.
getCapabilitiesFromFeature(feature) ==
  LET top == feature.privileges[1]
      sub == subFeaturePrivilegeIterator(feature)
      ui == Flatten([i \in 1..Len(top) |-> top[i].privilege.ui])
            \o Flatten([i \in 1..Len(sub) |-> sub[i].ui])
  IN  Assign(Assign(EmptyObject, "catalogue", allTrue(feature.catalogue)),
             feature.id, allTrue(ui))

\* { ...a, ...b }
spread(a, b) ==
  [k \in DOMAIN a \cup DOMAIN b |-> IF k \in DOMAIN b THEN b[k] ELSE a[k]]

\* The merge of the capabilities of the features into one object, starting
\* from the empty object: the entries of a key that is already there
\* (catalogue) are added to it.
RECURSIVE buildCapabilities(_)
buildCapabilities(allFeatureCapabilities) ==
  IF Len(allFeatureCapabilities) = 0 THEN EmptyObject
  ELSE LET n == Len(allFeatureCapabilities)
           acc == buildCapabilities(SubSeq(allFeatureCapabilities, 1, n - 1))
           own == allFeatureCapabilities[n]
       IN  [k \in DOMAIN acc \cup DOMAIN own |->
              IF k \in DOMAIN acc /\ k \in DOMAIN own THEN spread(acc[k], own[k])
              ELSE IF k \in DOMAIN acc THEN acc[k]
              ELSE own[k]]

\* Faulty variant: a key with no capability under it is left out of the result.
uiCapabilitiesForFeatures_withoutEmpty(fs) ==
  LET M == buildCapabilities([i \in 1..Len(fs) |->
                                getCapabilitiesFromFeature(fs[i])])
  IN  [k \in {x \in DOMAIN M : DOMAIN M[x] # {}} |-> M[k]]

\* Faulty variant: the catalogue of a feature replaces the catalogue merged so far.
uiCapabilitiesForFeatures_lastCatalogue(fs) ==
  LET M == buildCapabilities([i \in 1..Len(fs) |->
                                getCapabilitiesFromFeature(fs[i])])
  IN  IF Len(fs) = 0 THEN M
      ELSE Assign(M, "catalogue", allTrue(fs[Len(fs)].catalogue))

uiCapabilitiesForFeatures(fs) ==
  buildCapabilities([i \in 1..Len(fs) |-> getCapabilitiesFromFeature(fs[i])])

(***************************************************************************)
(* The feature lists the registry holds.                                   *)
(***************************************************************************)
\* Ids of the registered features, in registration order.
FeatureId(i) == "f" \o ToString(i)

\* Ids of top-level privileges, in declaration order.
PrivilegeIds == <<"all", "read", "foo">>

SubFeaturePrivilegeId(i) == "sub_" \o ToString(i)

\* Capabilities a privilege of the compiled features declares.
Capabilities ==
  {[savedObject |-> [all |-> <<"t1">>, read |-> <<>>],
    app |-> <<"a1">>, ui |-> <<"c1">>],
   [savedObject |-> [all |-> <<>>, read |-> <<"t1">>],
    app |-> <<>>, ui |-> <<"c1", "c2">>]}

\* Capabilities a sub-feature privilege or a reserved privilege of the
\* compiled features declares.
SubFeatureCapabilities ==
  {[savedObject |-> [all |-> <<>>, read |-> <<"t2">>],
    app |-> <<"a1">>, ui |-> <<"c2", "c3">>]}

\* Capabilities a privilege of the features of the UI merge declares.
UICapabilities ==
  {[savedObject |-> [all |-> <<>>, read |-> <<>>], app |-> <<>>, ui |-> u] :
     u \in {<<>>, <<"c1", "c2">>, <<"c1", "c3">>}}

\* Capabilities a sub-feature privilege of the features of the UI merge declares.
UISubFeatureCapabilities ==
  {[savedObject |-> [all |-> <<>>, read |-> <<>>], app |-> <<>>,
    ui |-> <<"c3", "c4">>]}

\* The privileges objects with at most n privileges declaring capabilities
\* of caps, each excluded from the base privileges or not as in excluded.
PrivilegeObjects(caps, excluded, n) ==
  LET idLists == {SelectSeq(PrivilegeIds, LAMBDA id : id \in D) :
                    D \in {D \in SUBSET Range(PrivilegeIds) : Cardinality(D) <= n}}
      privileges == {[excludeFromBasePrivileges |-> x,
                      savedObject |-> c.savedObject, app |-> c.app, ui |-> c.ui] :
                       x \in excluded, c \in caps}
  IN  UNION {{[i \in 1..Len(ids) |->
                 [privilegeId |-> ids[i], privilege |-> a[i]]] :
                a \in [1..Len(ids) -> privileges]} : ids \in idLists}

\* The flat lists of k sub-feature privileges.
SubFeaturePrivilegeLists(caps, includeIns, k) ==
  {[i \in 1..k |->
      [id |-> SubFeaturePrivilegeId(i), includeIn |-> a[i][1],
       savedObject |-> a[i][2].savedObject, app |-> a[i][2].app,
       ui |-> a[i][2].ui]] : a \in [1..k -> includeIns \X caps]}

group(groupType, privileges) ==
  [groupType |-> groupType, privileges |-> privileges]

subFeature(name, privilegeGroups) ==
  [name |-> name, privilegeGroups |-> privilegeGroups]

\* The sub-feature lists whose flat walk is flat: no sub-feature or one with
\* an empty group when flat is empty, else one sub-feature with one group, one
\* sub-feature with two groups, and two sub-features.
SubFeatureLayouts(flat) ==
  LET k == Len(flat)
      first == SubSeq(flat, 1, 1)
      rest == SubSeq(flat, 2, k)
  IN  {<<subFeature("sub-feature-1", <<group("independent", flat)>>)>>}
      \cup (IF k = 0 THEN {<<>>} ELSE {})
      \cup (IF k < 2 THEN {}
            ELSE {<<subFeature("sub-feature-1",
                               <<group("independent", first),
                                 group("mutually_exclusive", rest)>>)>>,
                  <<subFeature("sub-feature-1",
                               <<group("mutually_exclusive", first)>>),
                    subFeature("sub-feature-2", <<group("independent", rest)>>)>>})

SubFeatureLists(caps, includeIns, n) ==
  UNION {SubFeatureLayouts(flat) :
           flat \in UNION {SubFeaturePrivilegeLists(caps, includeIns, k) :
                             k \in 0..n}}

\* Number of privileges a feature declares.
privilegeCount(feature) ==
  (IF malformed(feature) THEN 0 ELSE Len(feature.privileges[1]))
  + Len(subFeaturePrivilegeIterator(feature))
  + Len(feature.reserved)

RECURSIVE totalPrivilegeCount(_)
totalPrivilegeCount(fs) ==
  IF Len(fs) = 0 THEN 0
  ELSE privilegeCount(Head(fs)) + totalPrivilegeCount(Tail(fs))

\* <<the features of all declaring 0 privileges, ..., declaring n>>
RECURSIVE byPrivilegeCount(_, _)
byPrivilegeCount(all, n) ==
  LET counted == {f : f \in {g \in all : privilegeCount(g) = n}}
  IN  IF n = 0 THEN <<counted>>
      ELSE Append(byPrivilegeCount(all, n - 1), counted)

\* The features privileges are compiled from, without their ids, by the
\* number of privileges they declare.
CompiledFeatures ==
  LET all ==
        [excludeFromBasePrivileges : BOOLEAN,
         privileges : {Undefined} \cup
            {Some(p) : p \in PrivilegeObjects(Capabilities, BOOLEAN,
                                              MaxPrivileges)},
         subFeatures : SubFeatureLists(SubFeatureCapabilities,
                                       {"all", "read", "none"}, MaxPrivileges),
         reserved : {Undefined,
                     Some([privilege |-> CHOOSE c \in SubFeatureCapabilities : TRUE,
                           description |-> "reserved"])},
         catalogue : {<<>>}]
  IN  byPrivilegeCount(all, MaxPrivileges)

\* The features UI capabilities are merged from, without their ids, by the
\* number of privileges they declare.
MergedFeatures ==
  LET all ==
        [excludeFromBasePrivileges : {FALSE},
         privileges : {Some(p) : p \in PrivilegeObjects(UICapabilities, {FALSE},
                                                        MaxPrivileges)},
         subFeatures : SubFeatureLists(UISubFeatureCapabilities, {"all", "none"},
                                       MaxPrivileges),
         reserved : {Undefined},
         catalogue : {<<>>, <<"x">>, <<"x", "y">>}]
  IN  byPrivilegeCount(all, MaxPrivileges)

withId(f, id) ==
  [id |-> id, excludeFromBasePrivileges |-> f.excludeFromBasePrivileges,
   privileges |-> f.privileges, subFeatures |-> f.subFeatures,
   reserved |-> f.reserved, catalogue |-> f.catalogue]

(***************************************************************************)
(* The state machine: features are registered, then the privileges are     *)
(* compiled (Spec) or the UI capabilities merged (SpecUI) on demand.       *)
(***************************************************************************)
NotCalled == [status |-> "not_called", value |-> EmptyObject]

Init ==
  /\ features = <<>>
  /\ compiled = NotCalled
  /\ capabilities = NotCalled

\* featuresService registers one more feature, while nothing was computed
\* from the registry yet.
CanRegister ==
  /\ Len(features) < MaxFeatures
  /\ compiled = NotCalled
  /\ capabilities = NotCalled

Register ==
  /\ CanRegister
  /\ \E n \in 0..(MaxPrivileges - totalPrivilegeCount(features)) :
       \E f \in CompiledFeatures[n + 1] :
         features' = Append(features, withId(f, FeatureId(Len(features) + 1)))
  /\ UNCHANGED <<compiled, capabilities>>

RegisterUI ==
  /\ CanRegister
  /\ \E n \in 0..(MaxPrivileges - totalPrivilegeCount(features)) :
       \E f \in MergedFeatures[n + 1] :
         features' = Append(features, withId(f, FeatureId(Len(features) + 1)))
  /\ UNCHANGED <<compiled, capabilities>>

\* A call of privileges.get().
Get ==
  /\ compiled' = get(features)
  /\ UNCHANGED <<features, capabilities>>

\* A call of uiCapabilitiesForFeatures(features).
Merge ==
  /\ capabilities' = [status |-> "returned",
                      value |-> uiCapabilitiesForFeatures(features)]
  /\ UNCHANGED <<features, compiled>>

Next == Register \/ Get

Spec == Init /\ [][Next]_vars

NextUI == RegisterUI \/ Merge

SpecUI == Init /\ [][NextUI]_vars

(***************************************************************************)
(* Vocabulary of the properties.                                           *)
(***************************************************************************)
Returned == compiled.status = "returned"

Merged == capabilities.status = "returned"

\* The top-level {privilegeId, privilege} entries a feature declares.
topLevelEntries(f) == IF f.privileges = Undefined THEN {} ELSE Range(f.privileges[1])

\* The sub-feature privileges a feature declares, in any group.
subFeaturePrivileges(f) ==
  UNION {Range(g.privileges) :
           g \in UNION {Range(sf.privilegeGroups) : sf \in Range(f.subFeatures)}}

\* The actions of a top-level privilege with its sub-feature privileges folded in.
augmentedActions(f, e) ==
  Range(getActions(mergeWithSubFeatures(e.privilegeId, e.privilege, f), f))

\* The top-level privileges that count for the base privileges.
baseEligible ==
  {<<f, e>> : f \in {g \in Range(features) : g.excludeFromBasePrivileges # TRUE},
              e \in UNION {topLevelEntries(g) : g \in Range(features)}}

baseEligibleEntries ==
  {fe \in baseEligible : /\ fe[2] \in topLevelEntries(fe[1])
                         /\ fe[2].privilege.excludeFromBasePrivileges # TRUE}

baseEligibleActions(ids) ==
  UNION {augmentedActions(fe[1], fe[2]) :
           fe \in {x \in baseEligibleEntries : x[2].privilegeId \in ids}}

globalAllPrefix ==
  <<login, version, "api:features", "space:manage", "ui:spaces/manage",
    "ui:management/kibana/spaces">>

\* The base action lists inside the compiled global scope.
compiledAllActions ==
  SubSeq(compiled.value.global.all, Len(globalAllPrefix) + 1,
         Len(compiled.value.global.all) - 1)

compiledReadActions ==
  SubSeq(compiled.value.global.read, 3, Len(compiled.value.global.read))

(***************************************************************************)
(* C1.  A feature excluded from the base privileges, and an excluded        *)
(* top-level privilege of a feature that is not, contribute nothing to     *)
(* global.all, global.read, space.all and space.read: every action there   *)
(* is a fixed one or is produced by a base-eligible privilege of a         *)
(* base-eligible feature.  The excluded feature still has its entry in     *)
(* features, with every one of its privileges.                             *)
(***************************************************************************)
C1_ExclusionOnlyAffectsBase ==
  Returned =>
    LET R == compiled.value
        fixed == Range(globalAllPrefix) \cup {allHack}
    IN  /\ Range(R.global.all) \subseteq fixed \cup baseEligibleActions({"all", "read", "foo"})
        /\ Range(R.space.all) \subseteq fixed \cup baseEligibleActions({"all", "read", "foo"})
        /\ Range(R.global.read) \subseteq {login, version} \cup baseEligibleActions({"read"})
        /\ Range(R.space.read) \subseteq {login, version} \cup baseEligibleActions({"read"})
        /\ \A f \in Range(features) :
             f.excludeFromBasePrivileges =>
               /\ \A e \in topLevelEntries(f) :
                    /\ f.id \in DOMAIN R.features
                    /\ e.privilegeId \in DOMAIN R.features[f.id]
                    /\ augmentedActions(f, e) \subseteq
                         Range(R.features[f.id][e.privilegeId])
               /\ \A sp \in subFeaturePrivileges(f) :
                    /\ f.id \in DOMAIN R.features
                    /\ sp.id \in DOMAIN R.features[f.id]
                    /\ Range(getActions(sp, f)) \subseteq
                         Range(R.features[f.id][sp.id])

\* An excluded feature and an excluded privilege of an eligible feature, each
\* with an action of its own that is in the feature table and not in global.all.
C1_Witness ==
  /\ Returned
  /\ \E f, g \in Range(features) :
       /\ f.excludeFromBasePrivileges
       /\ ~g.excludeFromBasePrivileges
       /\ \E e \in topLevelEntries(f) :
            \E a \in Range(compiled.value.features[f.id][e.privilegeId]) :
              a \notin Range(compiled.value.global.all)
       /\ \E e \in topLevelEntries(g) :
            /\ e.privilege.excludeFromBasePrivileges
            /\ \E a \in Range(compiled.value.features[g.id][e.privilegeId]) :
                 a \notin Range(compiled.value.global.all)
  /\ Len(compiledAllActions) > 0

(***************************************************************************)
(* C2.  The base read actions are those of the base-eligible privileges    *)
(* whose id is exactly "read"; the base all actions are those of every     *)
(* base-eligible top-level privilege, whatever its id; each list holds     *)
(* every action exactly once.                                              *)
(***************************************************************************)
C2_BaseActionSets ==
  Returned =>
    /\ Range(compiledReadActions) = baseEligibleActions({"read"})
    /\ Range(compiledAllActions) = baseEligibleActions({"all", "read", "foo"})
    /\ NoDuplicates(compiledReadActions)
    /\ NoDuplicates(compiledAllActions)

\* Two features produce a same base action, and a privilege with a custom id
\* gives global.all an action that global.read has not.
C2_Witness ==
  /\ Returned
  /\ \E x, y \in baseEligibleEntries :
       /\ x[1].id # y[1].id
       /\ x[2].privilegeId = "read"
       /\ augmentedActions(x[1], x[2]) \cap augmentedActions(y[1], y[2]) # {}
  /\ \E x \in baseEligibleEntries :
       /\ x[2].privilegeId = "foo"
       /\ \E a \in augmentedActions(x[1], x[2]) :
            a \notin Range(compiled.value.global.read)

(***************************************************************************)
(* C3.  global.all is the six fixed actions, then allActions, then the     *)
(* all-hack; space.all is login and version, then allActions, then the     *)
(* all-hack; global.read and space.read are login and version, then        *)
(* readActions; the all-hack is in no read list.                           *)
(***************************************************************************)
C3_ScopeShapes ==
  Returned =>
    LET R == compiled.value
    IN  /\ R.global.all =
             <<login, version, "api:features", "space:manage",
               "ui:spaces/manage", "ui:management/kibana/spaces">>
             \o allActions(features) \o <<allHack>>
        /\ R.space.all = <<login, version>> \o allActions(features) \o <<allHack>>
        /\ R.global.read = <<login, version>> \o readActions(features)
        /\ R.space.read = <<login, version>> \o readActions(features)
        /\ allHack \notin Range(R.global.read) \cup Range(R.space.read)

\* Base privileges with actions in both the all and the read lists.
C3_Witness ==
  /\ Returned
  /\ Len(compiled.value.global.read) > 2
  /\ Len(compiled.value.space.all) > Len(compiled.value.space.read) + 1
  /\ Len(features) = MaxFeatures

(***************************************************************************)
(* C4.  A feature with a sub-feature has, for each of its top-level        *)
(* privilege ids p, the entries p and minimal_p, and every action of       *)
(* minimal_p is an action of p; a feature without sub-features has no      *)
(* minimal_ entry.                                                         *)
(***************************************************************************)
C4_MinimalEntries ==
  Returned =>
    LET R == compiled.value
        minimalIds == {"minimal_" \o PrivilegeIds[i] : i \in 1..Len(PrivilegeIds)}
    IN  \A f \in Range(features) :
          /\ Len(f.subFeatures) >= 1 =>
               \A e \in topLevelEntries(f) :
                 /\ f.id \in DOMAIN R.features
                 /\ {e.privilegeId, "minimal_" \o e.privilegeId}
                      \subseteq DOMAIN R.features[f.id]
                 /\ Range(R.features[f.id]["minimal_" \o e.privilegeId])
                      \subseteq Range(R.features[f.id][e.privilegeId])
          /\ (Len(f.subFeatures) = 0 /\ f.id \in DOMAIN R.features) =>
               DOMAIN R.features[f.id] \cap minimalIds = {}

\* A feature whose minimal_all has fewer actions than its all, next to a
\* feature without sub-features.
C4_Witness ==
  /\ Returned
  /\ \E f, g \in Range(features) :
       /\ Len(f.subFeatures) >= 1
       /\ f.id \in DOMAIN compiled.value.features
       /\ {"all", "minimal_all"} \subseteq DOMAIN compiled.value.features[f.id]
       /\ Range(compiled.value.features[f.id]["minimal_all"])
            # Range(compiled.value.features[f.id]["all"])
       /\ Len(g.subFeatures) = 0
       /\ g.id \in DOMAIN compiled.value.features

withoutIncludeInNone(f) ==
  [f EXCEPT !.subFeatures =
     [s \in 1..Len(f.subFeatures) |->
        [f.subFeatures[s] EXCEPT !.privilegeGroups =
           [g \in 1..Len(f.subFeatures[s].privilegeGroups) |->
              [f.subFeatures[s].privilegeGroups[g] EXCEPT !.privileges =
                 SelectSeq(f.subFeatures[s].privilegeGroups[g].privileges,
                           LAMBDA sp : sp.includeIn # "none")]]]]]

C6_IncludeInNone ==
  Returned =>
    LET R == compiled.value
        W == get([i \in 1..Len(features) |-> withoutIncludeInNone(features[i])]).value
    IN  /\ \A f \in Range(features) :
             /\ \A sp \in {x \in subFeaturePrivileges(f) : x.includeIn = "none"} :
                  R.features[f.id][sp.id] = <<login, version>> \o getActions(sp, f)
             /\ \A e \in topLevelEntries(f) :
                  /\ R.features[f.id][e.privilegeId] = W.features[f.id][e.privilegeId]
                  /\ Len(f.subFeatures) >= 1 =>
                       R.features[f.id]["minimal_" \o e.privilegeId]
                         = W.features[f.id]["minimal_" \o e.privilegeId]
        /\ R.global = W.global
        /\ R.space = W.space

\* A sub-feature privilege with includeIn = "none" whose entry has an action
\* that neither all nor read nor global.all has.
C6_Witness ==
  /\ Returned
  /\ \E f \in Range(features) :
       /\ ~f.excludeFromBasePrivileges
       /\ {"all", "read"} \subseteq {e.privilegeId : e \in topLevelEntries(f)}
       /\ \E sp \in subFeaturePrivileges(f) :
            /\ sp.includeIn = "none"
            /\ \E a \in Range(compiled.value.features[f.id][sp.id]) :
                 /\ a \notin Range(compiled.value.features[f.id]["all"])
                 /\ a \notin Range(compiled.value.features[f.id]["read"])
                 /\ a \notin Range(compiled.value.global.all)

(***************************************************************************)
(* C7.  The merged UI capabilities hold the key catalogue and one key per  *)
(* feature id, with an empty mapping for a feature that declares no UI     *)
(* capability and an empty catalogue when no feature declares a catalogue  *)
(* entry.                                                                  *)
(***************************************************************************)
\* The UI capability keys a feature declares.
declaredUI(f) ==
  UNION {Range(e.privilege.ui) : e \in topLevelEntries(f)}
    \cup UNION {Range(sp.ui) : sp \in subFeaturePrivileges(f)}

keysPresent ==
  LET M == capabilities.value
  IN  /\ "catalogue" \in DOMAIN M
      /\ (\A f \in Range(features) : f.catalogue = <<>>) => M["catalogue"] = EmptyObject
      /\ \A f \in Range(features) :
           /\ f.id \in DOMAIN M
           /\ declaredUI(f) = {} => M[f.id] = EmptyObject

\* As stated: for every feature list, the empty one included, for which the
\* result is { catalogue: {} }.
C7_AlwaysCatalogue ==
  Merged =>
    /\ keysPresent
    /\ features = <<>> => capabilities.value = [catalogue |-> EmptyObject]

\* As amended: for every feature list that is not empty; the result for the
\* empty list is the empty object.
C7_CatalogueUnlessEmpty ==
  Merged =>
    /\ features # <<>> => keysPresent
    /\ features = <<>> => capabilities.value = EmptyObject

\* Features that declare neither a UI capability nor a catalogue entry.
C7_Witness ==
  /\ Merged
  /\ Len(features) = MaxFeatures
  /\ \A f \in Range(features) : declaredUI(f) = {} /\ f.catalogue = <<>>
  /\ capabilities.value["catalogue"] = EmptyObject

(***************************************************************************)
(* C8.  Under a feature's id are exactly the UI capabilities of its        *)
(* top-level privileges and of every privilege of every group of its       *)
(* sub-features, each mapped to true; under catalogue are exactly the      *)
(* catalogue entries of all the features; nothing of a feature is under    *)
(* the id of another.                                                      *)
(***************************************************************************)
C8_MergedCapabilities ==
  Merged =>
    LET M == capabilities.value
        catalogue == IF "catalogue" \in DOMAIN M THEN M["catalogue"] ELSE EmptyObject
    IN  /\ DOMAIN M \ {"catalogue"} = {f.id : f \in Range(features)}
        /\ \A f \in Range(features) :
             /\ DOMAIN M[f.id] = declaredUI(f)
             /\ \A k \in DOMAIN M[f.id] : M[f.id][k] = TRUE
        /\ DOMAIN catalogue = UNION {Range(f.catalogue) : f \in Range(features)}
        /\ \A k \in DOMAIN catalogue : catalogue[k] = TRUE

\* Two features with different capabilities and catalogue entries, one of
\* them with a sub-feature privilege that is included in no privilege.
C8_Witness ==
  /\ Merged
  /\ \E f, g \in Range(features) :
       /\ declaredUI(f) \ declaredUI(g) # {}
       /\ declaredUI(g) \ declaredUI(f) # {}
       /\ declaredUI(f) \cap declaredUI(g) # {}
       /\ Range(f.catalogue) \ Range(g.catalogue) # {}
       /\ g.catalogue # <<>>
       /\ \E sp \in subFeaturePrivileges(f) :
            /\ sp.includeIn = "none"
            /\ Range(sp.ui) \ UNION {Range(e.privilege.ui) : e \in topLevelEntries(f)} # {}

(***************************************************************************)
(* C9.  Compiling the features in another order gives the same keys in     *)
(* features and reserved and the same set of actions in every action list; *)
(* a call on the same list gives the same output, and a call leaves the    *)
(* feature list as it is.                                                  *)
(***************************************************************************)
reorderings(s) ==
  {[i \in 1..Len(s) |-> s[p[i]]] :
     p \in {q \in [1..Len(s) -> 1..Len(s)] : \A i, j \in 1..Len(s) :
                                               q[i] = q[j] => i = j}}

sameActionSets(A, B) ==
  /\ Range(A.global.all) = Range(B.global.all)
  /\ Range(A.global.read) = Range(B.global.read)
  /\ Range(A.space.all) = Range(B.space.all)
  /\ Range(A.space.read) = Range(B.space.read)
  /\ DOMAIN A.features = DOMAIN B.features
  /\ \A id \in DOMAIN A.features :
       /\ DOMAIN A.features[id] = DOMAIN B.features[id]
       /\ \A p \in DOMAIN A.features[id] :
            Range(A.features[id][p]) = Range(B.features[id][p])
  /\ DOMAIN A.reserved = DOMAIN B.reserved
  /\ \A id \in DOMAIN A.reserved : Range(A.reserved[id]) = Range(B.reserved[id])

orderIndependent ==
  Returned =>
    /\ compiled = get(features)
    /\ \A fs \in reorderings(features) :
         /\ get(fs).status = "returned"
         /\ sameActionSets(compiled.value, get(fs).value)

C9_Deterministic ==
  /\ []orderIndependent
  /\ [][compiled' # compiled => features' = features]_vars

\* Two features, one of them reserved, whose other order gives another
\* order of the base actions.
C9_Witness ==
  /\ Returned
  /\ Len(features) = 2
  /\ DOMAIN compiled.value.reserved # {}
  /\ \E fs \in reorderings(features) :
       get(fs).value.global.all # compiled.value.global.all

====
